---- MODULE Spec2Model ----
\* A model of the serial tool in src/src/main.rs: the hex codec (parse_hex,
\* format_hex), the port gateway (port_exists, open_serial) and the session
\* engine (send_message, monitor_port) as driven by main.
\*
\* A Rust String is modelled as a sequence of characters, each character a
\* TLA+ string; the two-byte character U+00E9 is the atom "U+00E9" and the
\* replacement character is "U+FFFD".  Byte lengths and byte offsets are
\* computed from the UTF-8 encoding, as str::len and str slicing do.
\* Standard output is taken to accept every line (println! never fails).
EXTENDS Integers, Sequences, FiniteSets, TLC

VARIABLES
    c_pc,       \* codec harness: which codec call has been made
    c_bytes,    \* codec harness: the byte sequence given to format_hex
    c_text,     \* codec harness: the string given to parse_hex
    c_hex,      \* codec harness: the string format_hex returned
    c_res,      \* codec harness: what parse_hex did
    pc,         \* main: position in the program
    args,       \* main: the parsed Args (port, hex, action, message)
    handle,     \* the port handle: "none", "open" or "released"
    io,         \* the calls made to the serialport library, in order
    stdout,     \* the lines printed, in order
    buffer,     \* monitor_port: the read buffer
    payload,    \* send_message: the bytes to write
    outcome     \* main: how the invocation ended

codec_vars == <<c_pc, c_bytes, c_text, c_hex, c_res>>

main_vars == <<pc, args, handle, io, stdout, buffer, payload, outcome>>

vars == <<c_pc, c_bytes, c_text, c_hex, c_res,
          pc, args, handle, io, stdout, buffer, payload, outcome>>

----------------------------------------------------------------------------
\* Bounds of the model.

\* longest byte sequence given to format_hex
MaxBytes == 3

\* longest string given to parse_hex directly
MaxText == 3

\* longest message on the command line
MaxMsg == 3

\* number of read calls a monitor run is followed for
MaxReads == 2

\* capacity of the read buffer in the model (256 in the program)
BufCap == 2

SeqsUpTo(S, n) == UNION {[1..k -> S] : k \in 0..n}

----------------------------------------------------------------------------
\* Characters and their UTF-8 encoding.

UpperHex == <<"0","1","2","3","4","5","6","7","8","9","A","B","C","D","E","F">>

LowerHex == <<"0","1","2","3","4","5","6","7","8","9","a","b","c","d","e","f">>

Ascii ==
    ("\t" :> 9) @@ ("\n" :> 10) @@ (" " :> 32) @@ ("+" :> 43) @@ ("-" :> 45) @@
    ("0" :> 48) @@ ("1" :> 49) @@ ("2" :> 50) @@ ("3" :> 51) @@ ("4" :> 52) @@
    ("5" :> 53) @@ ("6" :> 54) @@ ("7" :> 55) @@ ("8" :> 56) @@ ("9" :> 57) @@
    (":" :> 58) @@
    ("A" :> 65) @@ ("B" :> 66) @@ ("C" :> 67) @@ ("D" :> 68) @@ ("E" :> 69) @@
    ("F" :> 70) @@ ("Z" :> 90) @@
    ("a" :> 97) @@ ("b" :> 98) @@ ("c" :> 99) @@ ("d" :> 100) @@ ("e" :> 101) @@
    ("f" :> 102) @@ ("h" :> 104) @@ ("l" :> 108) @@ ("o" :> 111)

\* the UTF-8 bytes of one character
utf8(c) == IF c = "U+00E9" THEN <<195, 169>> ELSE <<Ascii[c]>>

RECURSIVE as_bytes(_)
\* str::as_bytes: the UTF-8 bytes of a string
as_bytes(s) == IF s = <<>> THEN <<>> ELSE utf8(Head(s)) \o as_bytes(Tail(s))

\* str::len: the length in bytes
str_len(s) == Len(as_bytes(s))

\* char::is_whitespace, on the characters of the model
is_whitespace(c) == c \in {" ", "\t", "\n"}

\* char::to_digit(16): the digit's value, or -1 when c is no base-16 digit
to_digit(c) ==
    IF \E i \in 1..16 : UpperHex[i] = c
    THEN (CHOOSE i \in 1..16 : UpperHex[i] = c) - 1
    ELSE IF \E i \in 1..16 : LowerHex[i] = c
         THEN (CHOOSE i \in 1..16 : LowerHex[i] = c) - 1
         ELSE -1

\* is byte offset k a character boundary of s
is_char_boundary(s, k) == \E n \in 0..Len(s) : str_len(SubSeq(s, 1, n)) = k

\* the number of characters of s that end at or before byte offset k
chars_before(s, k) == CHOOSE n \in 0..Len(s) : str_len(SubSeq(s, 1, n)) = k

\* does the slice &s[i..j] panic (out of range, or not on a character boundary)
slice_panics(s, i, j) ==
    \/ j > str_len(s)
    \/ ~is_char_boundary(s, i)
    \/ ~is_char_boundary(s, j)

\* the slice &s[i..j], where it does not panic
str_slice(s, i, j) == SubSeq(s, chars_before(s, i) + 1, chars_before(s, j))

----------------------------------------------------------------------------
\* Hex codec.

RECURSIVE digits_value(_, _)
\* the base-16 value of a digit string, accumulated left to right; -1 when a
\* character is no digit or the value leaves the range of u8
digits_value(ds, acc) ==
    IF ds = <<>> THEN acc
    ELSE IF to_digit(Head(ds)) < 0 THEN -1
    ELSE IF acc * 16 + to_digit(Head(ds)) > 255 THEN -1
    ELSE digits_value(Tail(ds), acc * 16 + to_digit(Head(ds)))

\* u8::from_str_radix(src, 16): the value, or -1 for an error.  A lone sign is
\* an error, one leading "+" is skipped, "-" is no digit of an unsigned type.
from_str_radix(src) ==
    IF src = <<>> THEN -1
    ELSE IF Len(src) = 1 /\ src[1] \in {"+", "-"} THEN -1
    ELSE IF src[1] = "+" THEN digits_value(Tail(src), 0)
    ELSE digits_value(src, 0)

\* line 42-45: drop whitespace and colons
filtered(hex_str) == SelectSeq(hex_str, LAMBDA c : ~is_whitespace(c) /\ c # ":")

\* line 48-50: the length check only prints
warns(f) == str_len(f) % 2 # 0

RECURSIVE parse_pairs(_, _, _)
\* line 53-60: the pairs at byte offsets i, i+2, ... collected into a Result;
\* the first error ends the collection, a bad slice panics
parse_pairs(f, i, acc) ==
    IF i >= str_len(f)
    THEN [kind |-> "Ok", bytes |-> acc, sub |-> <<>>, parsed |-> Len(acc), warned |-> warns(f)]
    ELSE IF slice_panics(f, i, i + 2)
    THEN [kind |-> "Panic", bytes |-> <<>>, sub |-> <<>>, parsed |-> Len(acc), warned |-> warns(f)]
    ELSE IF from_str_radix(str_slice(f, i, i + 2)) < 0
    THEN [kind |-> "Err", bytes |-> <<>>, sub |-> str_slice(f, i, i + 2),
          parsed |-> Len(acc) + 1, warned |-> warns(f)]
    ELSE parse_pairs(f, i + 2, Append(acc, from_str_radix(str_slice(f, i, i + 2))))

\* parse_hex: kind "Ok" with the bytes, kind "Err" with the substring the error
\* names, or kind "Panic"; parsed counts the pairs handed to from_str_radix
parse_hex(hex_str) == parse_pairs(filtered(hex_str), 0, <<>>)

\* the digits of a byte in upper-case base 16, without padding
upper_hex(byte) ==
    IF byte < 16 THEN <<UpperHex[byte + 1]>>
    ELSE <<UpperHex[(byte \div 16) + 1], UpperHex[(byte % 16) + 1]>>

\* a plausible slip: "{:X}" in place of "{:02X}"
format_02X_unpadded(byte) == upper_hex(byte)

\* line 70: "{:02X}", at least two digits, padded with zeros
format_02X(byte) ==
    IF Len(upper_hex(byte)) < 2 THEN <<"0">> \o upper_hex(byte) ELSE upper_hex(byte)

RECURSIVE format_hex_loop(_, _, _)
\* line 66-71: the loop over the bytes, i the 1-based position
format_hex_loop(bytes, i, hex_str) ==
    IF i > Len(bytes) THEN hex_str
    ELSE format_hex_loop(bytes, i + 1,
            (IF i > 1 THEN Append(hex_str, " ") ELSE hex_str) \o format_02X(bytes[i]))

format_hex(bytes) == format_hex_loop(bytes, 1, <<>>)

----------------------------------------------------------------------------
\* The program: main and the functions it calls.

\* exit status of a main that returns Err
ExitFailure == 1

\* exit status of a panic
ExitPanic == 101

Ports == {"COM3", "COM4"}

MsgChars == {"A", "1", "Z", "+", " ", "U+00E9"}

Messages == SeqsUpTo(MsgChars, MaxMsg) \cup {<<"h", "e", "l", "l", "o">>}

ArgsSet ==
    {[port |-> "COM3", hex |-> h, action |-> "Send", message |-> m] :
        h \in BOOLEAN, m \in Messages}
    \cup {[port |-> "COM3", hex |-> h, action |-> "Monitor", message |-> <<>>] :
        h \in BOOLEAN}

\* what serialport::available_ports() can return
Enumerations ==
    {[ok |-> TRUE, ports |-> S] : S \in SUBSET Ports} \cup {[ok |-> FALSE, ports |-> {}]}

ReadBytes == {65, 195, 169}

\* what port.read(&mut buffer) can return: Ok(n) with the n bytes it stored,
\* a timeout, or another error
ReadOutcomes ==
    {[res |-> "Ok", data |-> d] : d \in SeqsUpTo(ReadBytes, BufCap)}
    \cup {[res |-> "TimedOut", data |-> <<>>], [res |-> "Err", data |-> <<>>]}

\* one entry of the log of library calls; h is the handle's state at the call
Call(op, res, bytes, ports) ==
    [op |-> op, res |-> res, bytes |-> bytes, ports |-> ports, h |-> handle]

Running == [kind |-> "running", exit |-> -1, ports |-> {}, sub |-> <<>>]

\* main returned Err(kind): the error is printed and the exit status is 1
Failure(kind, ports, sub) ==
    [kind |-> kind, exit |-> ExitFailure, ports |-> ports, sub |-> sub]

\* the lines main and parse_hex print themselves
LineOddLength == <<"odd-length warning">>

LineSent == <<"message sent">>

LineListening == <<"listening">>

\* line 89-93: membership in the enumerated ports, false when enumeration fails
port_exists(available, port_name) ==
    IF available.ok THEN \E p \in available.ports : p = port_name ELSE FALSE

\* a plausible slip: the handle is kept from its destructor
forget_port(h) == h

\* the end of main's scope (a return, a "?" or an unwinding panic) drops port
drop_port(h) == IF h = "open" THEN "released" ELSE h

\* line 139: the port check
main_port_exists ==
    /\ pc = "start"
    /\ \E available \in Enumerations :
        /\ io' = Append(io, Call("available_ports",
                                 IF available.ok THEN "Ok" ELSE "Err", <<>>, available.ports))
        /\ pc' = IF port_exists(available, args.port) THEN "open" ELSE "bail"
    /\ UNCHANGED <<args, handle, stdout, buffer, payload, outcome>>
    /\ UNCHANGED codec_vars

\* line 140-143: the message's arguments are evaluated first, and the "?" on
\* the second enumeration returns its error in place of the message
main_bail ==
    /\ pc = "bail"
    /\ \E available \in Enumerations :
        /\ io' = Append(io, Call("available_ports",
                                 IF available.ok THEN "Ok" ELSE "Err", <<>>, available.ports))
        /\ outcome' = IF available.ok
                      THEN Failure("PortNotFound", available.ports, <<>>)
                      ELSE Failure("EnumerationError", {}, <<>>)
    /\ pc' = "done"
    /\ UNCHANGED <<args, handle, stdout, buffer, payload>>
    /\ UNCHANGED codec_vars

\* line 147-148 with open_serial (76-86), then the dispatch on the action
\* (150-157) up to the first call on the port
main_open_serial ==
    /\ pc = "open"
    /\ \E res \in {"Ok", "Err"} :
        /\ io' = Append(io, Call("open", res, <<>>, {}))
        /\ IF res = "Ok"
           THEN /\ handle' = "open"
                /\ pc' = IF args.action = "Send" THEN "send_bytes" ELSE "polling"
                /\ stdout' = IF args.action = "Send" THEN stdout
                             ELSE Append(stdout, LineListening)
                /\ UNCHANGED outcome
           ELSE /\ pc' = "done"
                /\ outcome' = Failure("OpenFailure", {}, <<>>)
                /\ UNCHANGED <<handle, stdout>>
    /\ UNCHANGED <<args, buffer, payload>>
    /\ UNCHANGED codec_vars

\* line 97-101: the bytes to send
send_message_bytes ==
    /\ pc = "send_bytes"
    /\ IF args.hex
       THEN LET r == parse_hex(args.message) IN
            /\ stdout' = IF r.warned THEN Append(stdout, LineOddLength) ELSE stdout
            /\ CASE r.kind = "Ok" ->
                    /\ payload' = r.bytes
                    /\ pc' = "send_write"
                    /\ UNCHANGED <<handle, outcome>>
                 [] r.kind = "Err" ->
                    /\ outcome' = Failure("InvalidHex", {}, r.sub)
                    /\ handle' = drop_port(handle)
                    /\ pc' = "done"
                    /\ UNCHANGED payload
                 [] OTHER ->
                    /\ outcome' = [kind |-> "Panic", exit |-> ExitPanic,
                                   ports |-> {}, sub |-> <<>>]
                    /\ handle' = drop_port(handle)
                    /\ pc' = "done"
                    /\ UNCHANGED payload
       ELSE /\ payload' = as_bytes(args.message)
            /\ pc' = "send_write"
            /\ UNCHANGED <<handle, outcome, stdout>>
    /\ UNCHANGED <<args, io, buffer>>
    /\ UNCHANGED codec_vars

\* a plausible slip: the result of write_all is ignored
send_message_write_unchecked ==
    /\ pc = "send_write"
    /\ \E res \in {"Ok", "Err"} :
        io' = Append(io, Call("write", res, payload, {}))
    /\ pc' = "send_flush"
    /\ UNCHANGED <<args, handle, stdout, buffer, payload, outcome>>
    /\ UNCHANGED codec_vars

\* line 104-105: write_all, and the "?" on its result
send_message_write ==
    /\ pc = "send_write"
    /\ \E res \in {"Ok", "Err"} :
        /\ io' = Append(io, Call("write", res, payload, {}))
        /\ IF res = "Ok"
           THEN /\ pc' = "send_flush"
                /\ UNCHANGED <<handle, outcome>>
           ELSE /\ pc' = "done"
                /\ handle' = drop_port(handle)
                /\ outcome' = Failure("WriteFailure", {}, <<>>)
    /\ UNCHANGED <<args, stdout, buffer, payload>>
    /\ UNCHANGED codec_vars

\* a plausible slip: the result of flush is ignored
send_message_flush_unchecked ==
    /\ pc = "send_flush"
    /\ \E res \in {"Ok", "Err"} :
        io' = Append(io, Call("flush", res, <<>>, {}))
    /\ stdout' = Append(stdout, LineSent)
    /\ outcome' = [kind |-> "Ok", exit |-> 0, ports |-> {}, sub |-> <<>>]
    /\ handle' = drop_port(handle)
    /\ pc' = "done"
    /\ UNCHANGED <<args, buffer, payload>>
    /\ UNCHANGED codec_vars

\* line 108-111: flush and the "?" on its result, then main's line 153-154
\* and its return at 163
send_message_flush ==
    /\ pc = "send_flush"
    /\ \E res \in {"Ok", "Err"} :
        /\ io' = Append(io, Call("flush", res, <<>>, {}))
        /\ IF res = "Ok"
           THEN /\ stdout' = Append(stdout, LineSent)
                /\ outcome' = [kind |-> "Ok", exit |-> 0, ports |-> {}, sub |-> <<>>]
           ELSE /\ outcome' = Failure("FlushFailure", {}, <<>>)
                /\ UNCHANGED stdout
    /\ handle' = drop_port(handle)
    /\ pc' = "done"
    /\ UNCHANGED <<args, buffer, payload>>
    /\ UNCHANGED codec_vars

\* the character of an ASCII byte
char_of(b) == CHOOSE c \in DOMAIN Ascii : Ascii[c] = b

RECURSIVE from_utf8_lossy(_)
\* line 125: String::from_utf8_lossy on the bytes a read can store: an ASCII
\* byte is its character, 0xC3 0xA9 is U+00E9, any other byte is invalid on
\* its own and becomes U+FFFD
from_utf8_lossy(bs) ==
    IF bs = <<>> THEN <<>>
    ELSE IF bs[1] < 128 THEN <<char_of(bs[1])>> \o from_utf8_lossy(Tail(bs))
    ELSE IF bs[1] = 195 /\ Len(bs) >= 2 /\ bs[2] = 169
         THEN <<"U+00E9">> \o from_utf8_lossy(Tail(Tail(bs)))
         ELSE <<"U+FFFD">> \o from_utf8_lossy(Tail(bs))

\* line 122-126: the line printed for the first n bytes of the buffer
monitor_output(buf, n, hex_mode) ==
    IF hex_mode THEN format_hex(SubSeq(buf, 1, n)) ELSE from_utf8_lossy(SubSeq(buf, 1, n))

\* a plausible slip: the guard on the timeout arm is missing
read_arm_unguarded(res) == IF res = "Ok" THEN "emit" ELSE "return"

\* line 119-131: the arm of the match a read result takes
read_arm(res) ==
    CASE res = "Ok" -> "emit"
      [] res = "TimedOut" -> "continue"
      [] OTHER -> "return"

\* the number of read calls made so far
ReadCalls == Len(SelectSeq(io, LAMBDA e : e.op = "read"))

\* line 118-132: one iteration of the loop, and on an error main's "?" at 159
monitor_port_read ==
    /\ pc = "polling"
    /\ ReadCalls < MaxReads
    /\ \E r \in ReadOutcomes :
        LET n == Len(r.data)
            stored == [i \in 1..BufCap |-> IF i <= n THEN r.data[i] ELSE buffer[i]]
        IN
        /\ io' = Append(io, Call("read", r.res, r.data, {}))
        /\ CASE read_arm(r.res) = "emit" ->
                /\ buffer' = stored
                /\ stdout' = Append(stdout, monitor_output(stored, n, args.hex))
                /\ UNCHANGED <<pc, handle, outcome>>
             [] read_arm(r.res) = "continue" ->
                /\ UNCHANGED <<pc, handle, outcome, buffer, stdout>>
             [] OTHER ->
                /\ outcome' = Failure("ReadFailure", {}, <<>>)
                /\ handle' = drop_port(handle)
                /\ pc' = "done"
                /\ UNCHANGED <<buffer, stdout>>
    /\ UNCHANGED <<args, payload>>
    /\ UNCHANGED codec_vars

NoResult == [kind |-> "None", bytes |-> <<>>, sub |-> <<>>, parsed |-> 0, warned |-> FALSE]

CodecIdle ==
    /\ c_pc = "idle"
    /\ c_bytes = <<>>
    /\ c_text = <<>>
    /\ c_hex = <<>>
    /\ c_res = NoResult

Init ==
    /\ CodecIdle
    /\ pc = "start"
    /\ args \in ArgsSet
    /\ handle = "none"
    /\ io = <<>>
    /\ stdout = <<>>
    /\ buffer = [i \in 1..BufCap |-> 0]
    /\ payload = <<>>
    /\ outcome = Running

Next ==
    \/ main_port_exists
    \/ main_bail
    \/ main_open_serial
    \/ send_message_bytes
    \/ send_message_write
    \/ send_message_flush
    \/ monitor_port_read

Spec == Init /\ [][Next]_vars

----------------------------------------------------------------------------
\* The codec on its own: format_hex and parse_hex applied to bounded inputs.

ByteSample == {0, 10, 65, 255}

\* byte sequences: a sampled prefix followed by any byte at all
ByteInputs ==
    {<<>>} \cup {p \o <<x>> : p \in SeqsUpTo(ByteSample, MaxBytes - 1), x \in 0..255}

\* the strings given to parse_hex directly are ASCII; strings with a multi-byte
\* character reach parse_hex through send_message (MsgChars)
TextChars == {"A", "B", "C", "b", "1", "Z", "+", "-", " ", ":"}

TextInputs == SeqsUpTo(TextChars, MaxText)

MainIdle ==
    /\ pc = "idle"
    /\ args = [port |-> "COM3", hex |-> FALSE, action |-> "Monitor", message |-> <<>>]
    /\ handle = "none"
    /\ io = <<>>
    /\ stdout = <<>>
    /\ buffer = [i \in 1..BufCap |-> 0]
    /\ payload = <<>>
    /\ outcome = Running

InitCodec ==
    /\ MainIdle
    /\ c_hex = <<>>
    /\ c_res = NoResult
    /\ \/ c_pc = "bytes" /\ c_bytes \in ByteInputs /\ c_text = <<>>
       \/ c_pc = "text" /\ c_text \in TextInputs /\ c_bytes = <<>>

\* format_hex applied to the byte sequence
Encode ==
    /\ c_pc = "bytes"
    /\ c_hex' = format_hex(c_bytes)
    /\ c_pc' = "encoded"
    /\ UNCHANGED <<c_bytes, c_text, c_res>>
    /\ UNCHANGED main_vars

\* parse_hex applied to what format_hex returned
DecodeEncoded ==
    /\ c_pc = "encoded"
    /\ c_res' = parse_hex(c_hex)
    /\ c_pc' = "roundtrip"
    /\ UNCHANGED <<c_bytes, c_text, c_hex>>
    /\ UNCHANGED main_vars

\* parse_hex applied to the string
DecodeText ==
    /\ c_pc = "text"
    /\ c_res' = parse_hex(c_text)
    /\ c_pc' = "decoded"
    /\ UNCHANGED <<c_bytes, c_text, c_hex>>
    /\ UNCHANGED main_vars

NextCodec == Encode \/ DecodeEncoded \/ DecodeText

SpecCodec == InitCodec /\ [][NextCodec]_vars

----------------------------------------------------------------------------
\* What the claims are stated with.

HexDigits ==
    {"0", "1", "2", "3", "4", "5", "6", "7", "8", "9",
     "a", "b", "c", "d", "e", "f", "A", "B", "C", "D", "E", "F"}

\* the aligned pairs of a string of even length
Pairs(f) == [k \in 1..(Len(f) \div 2) |-> <<f[2 * k - 1], f[2 * k]>>]

IsHexPair(p) == p[1] \in HexDigits /\ p[2] \in HexDigits

\* valid hex input: an even number of characters after filtering, all of them
\* base-16 digits
ValidHex(text) ==
    /\ Len(filtered(text)) % 2 = 0
    /\ \A k \in 1..(Len(filtered(text)) \div 2) : IsHexPair(Pairs(filtered(text))[k])

CallsOf(op) == SelectSeq(io, LAMBDA e : e.op = op)

Made(op, res) == \E i \in 1..Len(io) : io[i].op = op /\ io[i].res = res

\* the lines the monitor loop printed: those after the banner
LoopLines == IF stdout # <<>> /\ Head(stdout) = LineListening THEN Tail(stdout) ELSE <<>>

\* the first enumeration did not report the requested port
NotReportedPresent ==
    /\ io # <<>>
    /\ io[1].op = "available_ports"
    /\ ~(io[1].res = "Ok" /\ args.port \in io[1].ports)

----------------------------------------------------------------------------
\* C1: for every byte sequence b, parse_hex(format_hex(b)) succeeds and
\* returns exactly b.
C1_RoundTrip ==
    c_pc = "roundtrip" => c_res.kind = "Ok" /\ c_res.bytes = c_bytes

\* a round trip of two or more bytes, the last one below 0x10
C1_Witness ==
    /\ c_pc = "roundtrip"
    /\ Len(c_bytes) >= 2
    /\ c_bytes[Len(c_bytes)] < 16
    /\ c_res.bytes = c_bytes

\* C2: an input with an odd number of characters left after filtering makes
\* parse_hex return an error value, decided before any pair is parsed; it
\* returns no bytes and does not abort on an out-of-range slice.
C2_OddLengthIsError ==
    (c_pc = "decoded" /\ Len(filtered(c_text)) % 2 = 1)
        => (c_res.kind = "Err" /\ c_res.parsed = 0)

\* C3: for an input of even filtered length, parse_hex succeeds only when every
\* aligned pair is two base-16 digits, and otherwise fails with an error that
\* names an offending pair; a pair such as "+1" is never accepted as a byte.
C3_OnlyHexPairsAccepted ==
    (c_pc = "decoded" /\ Len(filtered(c_text)) % 2 = 0)
        => IF ValidHex(c_text)
           THEN c_res.kind = "Ok"
           ELSE /\ c_res.kind = "Err"
                /\ \E k \in 1..(Len(filtered(c_text)) \div 2) :
                      /\ c_res.sub = Pairs(filtered(c_text))[k]
                      /\ ~IsHexPair(c_res.sub)

RECURSIVE LinesOfNonEmptyReads(_, _)
\* the encoded line of every read that returned n > 0 bytes, in order
LinesOfNonEmptyReads(calls, hex_mode) ==
    IF calls = <<>> THEN <<>>
    ELSE IF Head(calls).res = "Ok" /\ Len(Head(calls).bytes) > 0
         THEN <<monitor_output(Head(calls).bytes, Len(Head(calls).bytes), hex_mode)>>
                  \o LinesOfNonEmptyReads(Tail(calls), hex_mode)
         ELSE LinesOfNonEmptyReads(Tail(calls), hex_mode)

\* C4: the monitor loop prints exactly one line for every read that returned
\* n > 0 bytes, the encoding of those n bytes, and nothing for a read that
\* timed out or delivered zero bytes.
C4_OneLinePerNonEmptyRead ==
    args.action = "Monitor"
        => LoopLines = LinesOfNonEmptyReads(CallsOf("read"), args.hex)

\* C5 (state part): once the port is open, the monitor is Terminated exactly
\* when its last read failed with a non-timeout error; no read follows such an
\* error, another read is issued after any other result, the invocation then
\* ends with ReadFailure, and it never ends with success.
C5_PollingUntilReadError ==
    (args.action = "Monitor" /\ Made("open", "Ok"))
        => LET rs == CallsOf("read") IN
           /\ pc \in {"polling", "done"}
           /\ pc = "done" <=> (rs # <<>> /\ rs[Len(rs)].res = "Err")
           /\ \A i \in 1..(Len(rs) - 1) : rs[i].res # "Err"
           /\ (pc = "polling" /\ Len(rs) < MaxReads) => ENABLED monitor_port_read
           /\ pc = "done" => outcome.kind = "ReadFailure"
           /\ outcome.kind # "Ok"

\* C5: the state part in every state, and no read or output once Terminated.
C5_MonitorLeavesOnlyOnReadError ==
    /\ []C5_PollingUntilReadError
    /\ [][pc = "done" => (io' = io /\ stdout' = stdout)]_vars

\* a monitor run that timed out, read again and then failed
C5_Witness ==
    /\ args.action = "Monitor"
    /\ pc = "done"
    /\ Len(CallsOf("read")) = 2
    /\ CallsOf("read")[1].res = "TimedOut"
    /\ CallsOf("read")[2].res = "Err"
    /\ outcome.kind = "ReadFailure"

\* C6: a send writes the whole payload at most once and flushes at most once,
\* the flush only after a successful write; a failed write ends in
\* WriteFailure with no flush, a failed flush in FlushFailure, success needs
\* both; without hex mode the payload is the UTF-8 bytes of the message.
C6_WriteThenFlush ==
    args.action = "Send"
        => LET ws == CallsOf("write")
               fs == CallsOf("flush")
           IN
           /\ Len(ws) <= 1 /\ Len(fs) <= 1
           /\ fs # <<>> => (ws # <<>> /\ ws[1].res = "Ok")
           /\ \A i, j \in 1..Len(io) :
                 (io[i].op = "write" /\ io[j].op = "flush") => i < j
           /\ (ws # <<>> /\ ~args.hex) => ws[1].bytes = as_bytes(args.message)
           /\ (ws # <<>> /\ ~args.hex /\ args.message = <<"h", "e", "l", "l", "o">>)
                 => ws[1].bytes = <<104, 101, 108, 108, 111>>
           /\ (pc = "done" /\ Made("write", "Err"))
                 => (outcome.kind = "WriteFailure" /\ fs = <<>>)
           /\ (pc = "done" /\ Made("flush", "Err")) => outcome.kind = "FlushFailure"
           /\ outcome.kind = "Ok" => (Made("write", "Ok") /\ Made("flush", "Ok"))

\* "hello" sent as text: five bytes written, then flushed, and success
C6_Witness ==
    /\ pc = "done"
    /\ ~args.hex
    /\ args.message = <<"h", "e", "l", "l", "o">>
    /\ outcome.kind = "Ok"
    /\ Len(CallsOf("write")) = 1
    /\ Len(CallsOf("flush")) = 1

\* C7: when port_exists does not report the requested port (absent, or the
\* enumeration failed) the invocation ends with PortNotFound carrying the
\* available ports, and no open, write, flush or read is attempted.
C7_AbsentPortIsPortNotFound ==
    (pc = "done" /\ NotReportedPresent)
        => /\ outcome.kind = "PortNotFound"
           /\ outcome.ports = io[Len(io)].ports
           /\ \A i \in 1..Len(io) : io[i].op = "available_ports"

\* every step of a send succeeded
SendSucceeded ==
    /\ args.action = "Send"
    /\ ~NotReportedPresent
    /\ Made("open", "Ok")
    /\ args.hex => parse_hex(args.message).kind = "Ok"
    /\ Made("write", "Ok")
    /\ Made("flush", "Ok")

\* C8: the exit status is 0 exactly when the action was Send and the port
\* check, open, decoding, write and flush all succeeded; every failure gives a
\* non-zero exit, no failed call is repeated, and Monitor never exits with 0.
C8_ExitZeroIffSendSucceeded ==
    pc = "done"
        => /\ outcome.exit = 0 <=> SendSucceeded
           /\ (\E i \in 1..Len(io) : io[i].op # "available_ports" /\ io[i].res = "Err")
                 => outcome.exit > 0
           /\ NotReportedPresent => outcome.exit > 0
           /\ (args.action = "Send" /\ args.hex /\ Made("open", "Ok")
                 /\ parse_hex(args.message).kind # "Ok") => outcome.exit > 0
           /\ \A op \in {"open", "write", "flush"} : Len(CallsOf(op)) <= 1
           /\ args.action = "Monitor" => outcome.exit > 0

\* a hex send that went through and exited with 0
C8_Witness ==
    /\ pc = "done"
    /\ outcome.exit = 0
    /\ args.hex
    /\ args.message = <<"A", "1">>
    /\ CallsOf("write")[1].bytes = <<161>>

\* C9: the device is opened at most once, every write, flush and read is made
\* on the open handle, and the handle is released when an invocation that
\* opened it has ended, on every exit path.
C9_HandleReleasedOnEveryExit ==
    /\ Len(CallsOf("open")) <= 1
    /\ \A i \in 1..Len(io) :
          io[i].op \in {"write", "flush", "read"} => io[i].h = "open"
    /\ handle = "open" => Made("open", "Ok")
    /\ (pc = "done" /\ Made("open", "Ok")) => handle = "released"
    /\ (pc = "done" /\ ~Made("open", "Ok")) => handle = "none"

\* a hex send of odd length: the parse panicked, the handle was released
C9_Witness ==
    /\ pc = "done"
    /\ outcome.kind = "Panic"
    /\ args.message = <<"A", "1", "A">>
    /\ handle = "released"

\* C10: a hex send of invalid hex (odd filtered length or a non-hex pair)
\* fails with the codec error and writes and flushes nothing.
C10_InvalidHexLeavesTransportUntouched ==
    (pc = "done" /\ args.action = "Send" /\ args.hex /\ Made("open", "Ok")
        /\ ~ValidHex(args.message))
        => /\ outcome.kind = "InvalidHex"
           /\ CallsOf("write") = <<>>
           /\ CallsOf("flush") = <<>>

====
